---- MODULE Spec2Model ----
(***************************************************************************)
(* State-machine model of interface/interface.py: declaration of           *)
(* interfaces (InterfaceMeta.__new__), the signature diff and verify,      *)
(* type construction under ImplementsMeta, and the weakly keyed memo of    *)
(* implements().                                                           *)
(*                                                                         *)
(* Python values are modelled as follows.                                  *)
(*  - A class dictionary is a function from attribute names to objects.    *)
(*  - An object found in a class dictionary is a record                    *)
(*      [type, sig, id, wraps, did]                                        *)
(*    type: name of its Python type; sig: call shape of the function it    *)
(*    carries; id: identity of that function; for a default(...) object    *)
(*    wraps is the type of the wrapped implementation and did the identity *)
(*    of the default object itself.                                        *)
(*  - A frozenset of interfaces is a sequence without repetition: the      *)
(*    elements in the iteration order of that frozenset object.  Its value *)
(*    as a set (what hashing and equality see) is its Range.               *)
(*  - A class is a heap record; its identity is its index in types, and    *)
(*    0 is object.                                                         *)
(*  - An exception is [cls, msg]; msg is the sequence of the diagnostics   *)
(*    that the message text is made of.                                    *)
(***************************************************************************)
EXTENDS Integers, Sequences, FiniteSets, TLC

VARIABLES
  ifaces,   \* declared subclasses of Interface: name -> interface record
  types,    \* heap of classes created by type.__new__, in creation order
  memo,     \* _memo of implements(): entries [key, value]
  owners,   \* classes referenced by callers (from outside _memo)
  ret       \* outcome of the last call: what it returned or raised

vars == <<ifaces, types, memo, owners, ret>>

(***************************************************************************)
(* Bounds of the model.                                                    *)
(***************************************************************************)
MaxTypes == 3
MaxArgs == 2
MaxClassBases == 2

Range(s) == {s[i] : i \in 1..Len(s)}

Injective(s) == \A i, j \in 1..Len(s) : s[i] = s[j] => i = j

EmptyDict == [k \in {} |-> k]

MinOf(S) == CHOOSE i \in S : \A j \in S : i <= j

\* d with d[k] set to v (dict item assignment / setattr on a class dict).
DictSet(d, k, v) == [x \in DOMAIN d \cup {k} |-> IF x = k THEN v ELSE d[x]]

(***************************************************************************)
(* Objects that class bodies hold.                                         *)
(***************************************************************************)
NoSig == [pos |-> <<>>, opt |-> {"?"}]

CallableTypes == {"function", "staticmethod"}

Callable(type, sig, id) ==
  [type |-> type, sig |-> sig, id |-> id, wraps |-> "", did |-> 0]

\* default(implementation): the marker object wrapping an implementation.
default(impl, did) ==
  [type |-> "default", sig |-> impl.sig, id |-> impl.id,
   wraps |-> impl.type, did |-> did]

\* default.implementation: the wrapped object.
implementation(d) == Callable(d.wraps, d.sig, d.id)

\* A value no signature can be extracted from (a str, an int).
PlainValue(type) ==
  [type |-> type, sig |-> NoSig, id |-> 0, wraps |-> "", did |-> 0]

(***************************************************************************)
(* TypedSignature(obj): the type of the member and the signature of the    *)
(* function it carries; for a default, those of its implementation.        *)
(* ok = FALSE stands for the TypeError raised for an unsupported object.   *)
(***************************************************************************)
TypedSignature(obj) ==
  IF obj.type = "default"
    THEN [ok |-> TRUE, type |-> obj.wraps, signature |-> obj.sig]
  ELSE IF obj.type \in CallableTypes
    THEN [ok |-> TRUE, type |-> obj.type, signature |-> obj.sig]
  ELSE [ok |-> FALSE, type |-> obj.type, signature |-> NoSig]

\* compatible(impl_sig, iface_sig): same positional parameters in the same
\* order; the implementation may add optional parameters, never drop one.
compatible(impl_sig, iface_sig) ==
  /\ impl_sig.pos = iface_sig.pos
  /\ iface_sig.opt \subseteq impl_sig.opt

\* issubclass over the builtin member types: none derives from another.
issubclass(a, b) == a = b

CLASS_ATTRIBUTE_WHITELIST ==
  {"__doc__", "__module__", "__name__", "__qualname__", "__weakref__"}

is_interface_field_name(k) == ~(k \in CLASS_ATTRIBUTE_WHITELIST)

(***************************************************************************)
(* Exceptions.                                                             *)
(***************************************************************************)
TypeError(what) == [cls |-> "TypeError", msg |-> <<[kind |-> what]>>]

InvalidImplementation(msg) == [cls |-> "InvalidImplementation", msg |-> msg]

Returned(v) == [raised |-> FALSE, value |-> v]

Raised(e) == [raised |-> TRUE, exc |-> e]

(***************************************************************************)
(* InterfaceMeta.__new__(mcls, name, bases, clsdict)                       *)
(***************************************************************************)
InterfaceMeta_new(name, clsdict) ==
  LET fields == {k \in DOMAIN clsdict : is_interface_field_name(k)}
      bad == {k \in fields : ~TypedSignature(clsdict[k]).ok}
      signatures == [k \in fields |-> TypedSignature(clsdict[k])]
      defaults ==
        [k \in {f \in fields : clsdict[f].type = "default"} |-> clsdict[k]]
  IN IF bad # {}
       THEN Raised(TypeError("Couldn't parse signature"))
       ELSE Returned([name |-> name,
                      _signatures |-> signatures,
                      _defaults |-> defaults])

(***************************************************************************)
(* The heap of classes.                                                    *)
(***************************************************************************)
\* vars(type_): the class's own dictionary; object (0) holds no member name.
type_vars(heap, t) == IF t = 0 THEN EmptyDict ELSE heap[t].dict

type_mro(heap, t) == IF t = 0 THEN <<0>> ELSE heap[t].mro

\* static_get_type_attr(t, name): the first raw value found along t.mro();
\* found = FALSE stands for the AttributeError.
static_get_type_attr(heap, t, name) ==
  LET mro == type_mro(heap, t)
      hits == {i \in 1..Len(mro) : name \in DOMAIN type_vars(heap, mro[i])}
  IN IF hits = {}
       THEN [found |-> FALSE, value |-> PlainValue("AttributeError")]
       ELSE [found |-> TRUE, value |-> type_vars(heap, mro[MinOf(hits)])[name]]

(***************************************************************************)
(* InterfaceMeta._diff_signatures(self, type_)                             *)
(* missing is built as a list in the order of self._signatures; only its   *)
(* membership is read afterwards (the diagnostics sort), so it is a set.   *)
(***************************************************************************)
\* Variant of diff_members in which the signature is compared only when
\* the type matched (elif in place of the second if).
diff_members_elif(self, f) ==
  LET names == DOMAIN self._signatures
      present == {name \in names : f[name].found}
      impl_sig == [name \in present |-> TypedSignature(f[name].value)]
      iface_sig == self._signatures
      wrong == {p \in present : ~issubclass(impl_sig[p].type, iface_sig[p].type)}
  IN [missing |-> names \ present,
      mistyped |-> [name \in wrong |-> impl_sig[name].type],
      mismatched |->
        [name \in {p \in present \ wrong :
                     ~compatible(impl_sig[p].signature, iface_sig[p].signature)}
           |-> impl_sig[name]]]

\* The body of the loop, given f: name -> static_get_type_attr(type_, name).
diff_members(self, f) ==
  LET names == DOMAIN self._signatures
      present == {name \in names : f[name].found}
      impl_sig == [name \in present |-> TypedSignature(f[name].value)]
      iface_sig == self._signatures
  IN [missing |-> names \ present,
      mistyped |->
        [name \in {p \in present :
                     ~issubclass(impl_sig[p].type, iface_sig[p].type)}
           |-> impl_sig[name].type],
      mismatched |->
        [name \in {p \in present :
                     ~compatible(impl_sig[p].signature, iface_sig[p].signature)}
           |-> impl_sig[name]]]

_diff_signatures(heap, self, type_) ==
  diff_members(self, [name \in DOMAIN self._signatures |->
                        static_get_type_attr(heap, type_, name)])

(***************************************************************************)
(* InterfaceMeta._invalid_implementation(self, t, missing, mistyped,       *)
(* mismatched): one diagnostic; a section is present iff it is non-empty.  *)
(***************************************************************************)
_invalid_implementation(self, typename, missing, mistyped, mismatched) ==
  InvalidImplementation(
    << [kind |-> "failed to implement",
        C |-> typename,
        I |-> self.name,
        missing |-> [n \in missing |-> self._signatures[n]],
        mistyped |-> mistyped,
        mismatched |-> mismatched] >>)

(***************************************************************************)
(* InterfaceMeta.verify(self, type_)                                       *)
(***************************************************************************)
\* Variant of resolve_missing that returns every default of the interface,
\* not only those of the missing members.
resolve_missing_all_defaults(self, typename, d) ==
  LET covered == {name \in d.missing : name \in DOMAIN self._defaults}
      missing == d.missing \ covered
      defaults_to_use ==
        [name \in DOMAIN self._defaults |-> implementation(self._defaults[name])]
  IN IF missing = {} /\ DOMAIN d.mistyped = {} /\ DOMAIN d.mismatched = {}
       THEN Returned(defaults_to_use)
       ELSE Raised(_invalid_implementation(self, typename, missing,
                                           d.mistyped, d.mismatched))

\* What follows the call of _diff_signatures, d being its result.
resolve_missing(self, typename, d) ==
  LET covered == {name \in d.missing : name \in DOMAIN self._defaults}
      missing == d.missing \ covered
      defaults_to_use ==
        [name \in covered |-> implementation(self._defaults[name])]
  IN IF missing = {} /\ DOMAIN d.mistyped = {} /\ DOMAIN d.mismatched = {}
       THEN Returned(defaults_to_use)
       ELSE Raised(_invalid_implementation(self, typename, missing,
                                           d.mistyped, d.mismatched))

verify(heap, self, type_) ==
  resolve_missing(self, heap[type_].name, _diff_signatures(heap, self, type_))

(***************************************************************************)
(* type.__new__: the method resolution order (C3 linearisation).  A result *)
(* holding -1 stands for the TypeError of an inconsistent hierarchy.       *)
(***************************************************************************)
RECURSIVE c3_merge(_)
c3_merge(seqs) ==
  LET live == SelectSeq(seqs, LAMBDA s : Len(s) > 0)
      good == {i \in 1..Len(live) :
                 \A j \in 1..Len(live) : ~(Head(live[i]) \in Range(Tail(live[j])))}
  IN IF Len(live) = 0 THEN <<>>
     ELSE IF good = {} THEN <<-1>>
     ELSE LET h == Head(live[MinOf(good)])
          IN <<h>> \o c3_merge([j \in 1..Len(live) |->
                                  SelectSeq(live[j], LAMBDA x : x # h)])

compute_mro(heap, t, bases) ==
  <<t>> \o c3_merge([i \in 1..Len(bases) |-> type_mro(heap, bases[i])]
                    \o <<bases>>)

\* is_a(ImplementsMeta)(t): t is an instance of the metaclass.
is_a_ImplementsMeta(heap, t) == t # 0 /\ heap[t].meta = "ImplementsMeta"

\* t._interfaces: ordinary class attribute lookup, so a class that has not
\* been given its own _interfaces (ImplementsMeta.__init__ has not run yet)
\* reads the one of the first class along its mro that has.  Every class
\* built by ImplementsMeta descends from a base made by implements().
get_interfaces(heap, t) ==
  LET mro == type_mro(heap, t)
      hits == {i \in 1..Len(mro) : mro[i] # 0 /\ heap[mro[i]].has_interfaces}
  IN heap[mro[MinOf(hits)]]._interfaces

RECURSIVE flatten(_)
flatten(ss) == IF ss = <<>> THEN <<>> ELSE Head(ss) \o flatten(Tail(ss))

\* utils.unique: drop repeated elements, keeping the first occurrences.
RECURSIVE unique(_)
unique(s) ==
  IF s = <<>> THEN <<>>
  ELSE LET r == unique(SubSeq(s, 1, Len(s) - 1))
       IN IF s[Len(s)] \in Range(r) THEN r ELSE Append(r, s[Len(s)])

\* Variant of _interfaces_with_duplicates that does not walk the mro.
_interfaces_own_only(heap, self) == get_interfaces(heap, self)

\* ImplementsMeta._interfaces_with_duplicates(self)
_interfaces_with_duplicates(heap, self) ==
  LET metas == SelectSeq(type_mro(heap, self),
                         LAMBDA t : is_a_ImplementsMeta(heap, t))
  IN get_interfaces(heap, self)
       \o flatten([i \in 1..Len(metas) |-> get_interfaces(heap, metas[i])])

\* ImplementsMeta.interfaces(self)
interfaces(heap, self) == unique(_interfaces_with_duplicates(heap, self))

\* functional.valfilter(f, d): the items of d whose value satisfies f, the
\* predicate f being given as a function on the values of d.
valfilter(f, d) == [k \in {x \in DOMAIN d : f[d[x]]} |-> d[k]]

\* _conflicting_defaults(typename, conflicts): one paragraph per attribute
\* listing the sorted names of the interfaces that provided a default.
_conflicting_defaults(typename, conflicts) ==
  InvalidImplementation(
    << [kind |-> "conflicting defaults",
        C |-> typename,
        conflicts |-> [attr \in DOMAIN conflicts |-> Range(conflicts[attr])]] >>)

\* The loop over newtype.interfaces(): what iface.verify(newtype) returned
\* or raised, per interface in loop order.  No setattr happens before the
\* loop ends, so every call sees the class as type.__new__ made it.
verify_each(heap, order, t) ==
  [i \in 1..Len(order) |-> verify(heap, ifaces[order[i]], t)]

\* errors after the loop: the exceptions caught, in loop order.
caught_errors(results) ==
  LET idx == SelectSeq([i \in 1..Len(results) |-> i],
                       LAMBDA i : results[i].raised)
  IN [j \in 1..Len(idx) |-> results[idx[j]].exc]

\* default_providers: name -> the list of interfaces that resolved a
\* default for it, in loop order.
default_providers(order, results) ==
  LET passed == {i \in 1..Len(results) : ~results[i].raised}
      names == UNION {DOMAIN results[i].value : i \in passed}
      idx(name) == SelectSeq([i \in 1..Len(results) |-> i],
                             LAMBDA i : /\ i \in passed
                                        /\ name \in DOMAIN results[i].value)
  IN [name \in names |-> [j \in 1..Len(idx(name)) |-> order[idx(name)[j]]]]

\* default_impls: name -> implementation; a later interface overwrites.
default_impls(results) ==
  LET passed == {i \in 1..Len(results) : ~results[i].raised}
      names == UNION {DOMAIN results[i].value : i \in passed}
      last(name) == CHOOSE i \in passed :
                      /\ name \in DOMAIN results[i].value
                      /\ \A j \in passed :
                           name \in DOMAIN results[j].value => j <= i
  IN [name \in names |-> results[last(name)].value[name]]

\* Variant of duplicate_defaults with the threshold off by one.
duplicate_defaults_over_two(providers) ==
  valfilter([provs \in {providers[k] : k \in DOMAIN providers} |-> Len(provs) > 2], providers)

\* The providers of a name, if there is more than one.
duplicate_defaults(providers) ==
  valfilter([provs \in {providers[k] : k \in DOMAIN providers} |-> Len(provs) > 1], providers)

\* errors after the check for duplicate defaults.
collect_errors(typename, order, results) ==
  LET dups == duplicate_defaults(default_providers(order, results))
  IN IF DOMAIN dups # {}
       THEN Append(caught_errors(results), _conflicting_defaults(typename, dups))
       ELSE caught_errors(results)

\* Variant of install_defaults that sets the defaults whether or not a
\* duplicate was found.
install_defaults_always(dict, order, results) ==
  [k \in DOMAIN dict \cup DOMAIN default_impls(results) |->
     IF k \in DOMAIN default_impls(results)
       THEN default_impls(results)[k] ELSE dict[k]]

\* The class dictionary after the else branch: setattr of every resolved
\* default, iff no duplicate default was found.
install_defaults(dict, order, results) ==
  LET dups == duplicate_defaults(default_providers(order, results))
      impls == default_impls(results)
  IN IF DOMAIN dups # {}
       THEN dict
       ELSE [k \in DOMAIN dict \cup DOMAIN impls |->
               IF k \in DOMAIN impls THEN impls[k] ELSE dict[k]]

\* "\n\n".join(map(str, errors))
join_errors(errors) ==
  InvalidImplementation(flatten([i \in 1..Len(errors) |-> errors[i].msg]))

\* Whether __new__ goes on to verify: not for the types implements() makes.
runs_checks(interfaces_kw) == interfaces_kw = <<>>

(***************************************************************************)
(* ImplementsMeta.__new__(mcls, name, bases, clsdict, interfaces) followed *)
(* by ImplementsMeta.__init__ when __new__ returned (type.__call__).       *)
(* The result records the class as constructed (newtype, also when the     *)
(* construction raised and the class is dropped), whether the checks ran,  *)
(* the interfaces verified in loop order, and what was raised.             *)
(***************************************************************************)
\* ImplementsMeta.__init__: mcls._interfaces = interfaces
ImplementsMeta_init(newtype, interfaces_kw) ==
  [newtype EXCEPT !.has_interfaces = TRUE, !._interfaces = interfaces_kw]

\* Variant of new_outcome that raises the first error alone.
new_outcome_first_error(newtype, order, errors) ==
  IF errors = <<>>
    THEN [raised |-> FALSE, exc |-> TypeError("none"),
          newtype |-> ImplementsMeta_init(newtype, <<>>),
          checked |-> TRUE, verified |-> order]
    ELSE [raised |-> TRUE, exc |-> errors[1],
          newtype |-> newtype, checked |-> TRUE, verified |-> order]

\* The end of __new__: return newtype, raise the only error, or raise the
\* joined errors.
new_outcome(newtype, order, errors) ==
  IF errors = <<>>
    THEN [raised |-> FALSE, exc |-> TypeError("none"),
          newtype |-> ImplementsMeta_init(newtype, <<>>),
          checked |-> TRUE, verified |-> order]
  ELSE IF Len(errors) = 1
    THEN [raised |-> TRUE, exc |-> errors[1],
          newtype |-> newtype, checked |-> TRUE, verified |-> order]
  ELSE [raised |-> TRUE, exc |-> join_errors(errors),
        newtype |-> newtype, checked |-> TRUE, verified |-> order]

\* From the end of the loop on, results being what each verify gave.
new_after_loop(newtype, order, results) ==
  new_outcome(
    [newtype EXCEPT !.dict = install_defaults(newtype.dict, order, results)],
    order,
    collect_errors(newtype.name, order, results))

\* The loop over newtype.interfaces(), heap holding newtype at t.
new_loop(heap, t, order) ==
  new_after_loop(heap[t], order, verify_each(heap, order, t))

\* After super().__new__ made newtype.
new_checks(heap, newtype, interfaces_kw) ==
  IF ~runs_checks(interfaces_kw)
    THEN [raised |-> FALSE, exc |-> TypeError("none"),
          newtype |-> ImplementsMeta_init(newtype, interfaces_kw),
          checked |-> FALSE, verified |-> <<>>]
    ELSE new_loop(Append(heap, newtype), Len(heap) + 1,
                  interfaces(Append(heap, newtype), Len(heap) + 1))

\* super().__new__(mcls, name, bases, clsdict), mro being the linearisation.
type_new(name, bases, clsdict, mro) ==
  [name |-> name, bases |-> bases, dict |-> clsdict, mro |-> mro,
   meta |-> "ImplementsMeta", has_interfaces |-> FALSE, _interfaces |-> <<>>]

new_with_mro(heap, name, bases, clsdict, interfaces_kw, mro) ==
  IF -1 \in Range(mro)
    THEN [raised |-> TRUE, exc |-> TypeError("Cannot create a consistent MRO"),
          newtype |-> type_new(name, bases, clsdict, mro),
          checked |-> FALSE, verified |-> <<>>]
    ELSE new_checks(heap, type_new(name, bases, clsdict, mro), interfaces_kw)

ImplementsMeta_call(heap, name, bases, clsdict, interfaces_kw) ==
  new_with_mro(heap, name, bases, clsdict, interfaces_kw,
               compute_mro(heap, Len(heap) + 1, bases))

(***************************************************************************)
(* _memo = WeakKeyDictionary(): a set of entries [key, value].  key is the *)
(* frozenset object the entry was stored under, value the class.           *)
(***************************************************************************)
\* Variant of memo_lookup that compares keys by identity: the frozenset
\* just built is never the object an entry was stored under.
memo_lookup_by_identity(m, interfaces_) == {e \in m : FALSE}

\* _memo[interfaces]: the entries whose key equals interfaces (as a set).
memo_lookup(m, interfaces_) == {e \in m : Range(e.key) = Range(interfaces_)}

\* _memo[interfaces] = result: a dict keeps the key object it already holds
\* and replaces the value; otherwise it adds the entry.
memo_setitem(m, interfaces_, result) ==
  IF memo_lookup(m, interfaces_) = {}
    THEN m \cup {[key |-> interfaces_, value |-> result]}
    ELSE {IF Range(e.key) = Range(interfaces_)
            THEN [key |-> e.key, value |-> result] ELSE e : e \in m}

\* Classes strongly reachable from a set of classes: a class references its
\* bases, hence everything on its mro.
reachable_from(heap, roots) == UNION {Range(type_mro(heap, r)) : r \in roots}

\* What the program references strongly: what callers hold, and the values
\* of _memo (a WeakKeyDictionary references its values strongly).
strongly_reachable(heap, m, own) ==
  reachable_from(heap, own \cup {e.value : e \in m})

\* The key of entry e is the frozenset stored as _interfaces on the class
\* e.value (ImplementsMeta.__init__), the only strong reference to it once
\* implements() has returned: it is alive iff that class is reachable.
key_alive(heap, m, own, e) == e.value \in strongly_reachable(heap, m, own)

\* WeakKeyDictionary drops the entries whose key has died.
live_entries(heap, m, own) == {e \in m : key_alive(heap, m, own, e)}

\* Variant of is_Interface_subclass that accepts anything.
is_anything(I) == TRUE

\* issubclass(I, Interface)
is_Interface_subclass(I) == I \in DOMAIN ifaces

IfaceOrder == <<"I1", "I2", "I3">>

\* sorted(interfaces, key=getname)
sorted_by_name(S) == SelectSeq(IfaceOrder, LAMBDA I : I \in S)

DocAttr == PlainValue("str")

(***************************************************************************)
(* Inputs.                                                                 *)
(***************************************************************************)
Names == {"m", "n"}

SigA == [pos |-> <<"a">>, opt |-> {}]
Sig0 == [pos |-> <<>>, opt |-> {}]
SigAB == [pos |-> <<"a">>, opt |-> {"b"}]

\* A class body: the members chosen for some of Names.
Bodies(values) ==
  UNION {[D -> values] : D \in SUBSET Names}

\* The body of an interface also holds __module__, as every class body does.
WithModule(d) == DictSet(d, "__module__", PlainValue("str"))

\* Interface bodies of the class-construction specification.
IfaceBodies(name) ==
  IF name = "I1" THEN
    { [m |-> default(Callable("function", SigA, 1), 1)] }
  ELSE IF name = "I2" THEN
    { [m |-> default(Callable("function", SigA, 1), 1)],
      [m |-> default(Callable("function", SigA, 2), 2)],
      [m |-> default(Callable("function", SigA, 2), 2),
       n |-> Callable("function", SigA, 3)] }
  ELSE
    { [n |-> Callable("function", SigA, 3)],
      [n |-> PlainValue("int")] }

\* Bodies of the classes defined under an enforcement base.
ClassBodies ==
  { b \in Bodies({Callable("function", SigA, 10), Callable("function", Sig0, 11)}) :
      "n" \in DOMAIN b => b["n"].sig = SigA }

\* Interface bodies and candidate bodies of the verify specification.
IfaceBodiesV ==
  { b \in Bodies({Callable("function", SigA, 1), Callable("function", SigAB, 1),
                  Callable("staticmethod", SigA, 1),
                  default(Callable("function", SigA, 2), 1),
                  default(Callable("staticmethod", Sig0, 3), 2),
                  PlainValue("int")}) :
      "n" \in DOMAIN b => b["n"].sig = SigA /\ b["n"].type # "staticmethod" }

ClassBodiesV ==
  { b \in Bodies({Callable("function", SigA, 10), Callable("function", Sig0, 11),
                  Callable("function", SigAB, 12),
                  Callable("staticmethod", SigA, 13),
                  Callable("staticmethod", Sig0, 14)}) :
      "n" \in DOMAIN b => b["n"] = Callable("function", SigA, 10) }

NotAnInterface == "NotAnInterface"

\* The sequences over S of length at most n.
SeqsUpTo(S, n) == UNION {[1..k -> S] : k \in 0..n}

ClassName(i) == <<"C", ToString(i)>>

(***************************************************************************)
(* Initial state: nothing declared, nothing defined.                       *)
(***************************************************************************)
Init ==
  /\ ifaces = EmptyDict
  /\ types = <<>>
  /\ memo = {}
  /\ owners = {}
  /\ ret = [op |-> "none", raised |-> FALSE]

(***************************************************************************)
(* class <name>(Interface): <clsdict>                                      *)
(***************************************************************************)
DeclareInterface(name, clsdict) ==
  /\ name \notin DOMAIN ifaces
  /\ LET r == InterfaceMeta_new(name, WithModule(clsdict))
     IN /\ ifaces' = IF r.raised THEN ifaces ELSE DictSet(ifaces, name, r.value)
        /\ ret' = IF r.raised
                    THEN [op |-> "interface", name |-> name,
                          raised |-> TRUE, exc |-> r.exc]
                    ELSE [op |-> "interface", name |-> name, raised |-> FALSE]
  /\ UNCHANGED <<types, memo, owners>>

\* Interfaces are declared in the order of their names.
NextIfaceName ==
  {IfaceOrder[i] : i \in {j \in 1..Len(IfaceOrder) :
                            /\ IfaceOrder[j] \notin DOMAIN ifaces
                            /\ \A k \in 1..(j - 1) : IfaceOrder[k] \in DOMAIN ifaces}}

(***************************************************************************)
(* implements(args...).  interfaces_ is frozenset(args) with the iteration *)
(* order this frozenset object happens to have.                            *)
(***************************************************************************)
implements_result(args, raised, exc, value) ==
  [op |-> "implements", args |-> args, raised |-> raised, exc |-> exc,
   value |-> value]

\* The cache miss: synthesis of the base and its insertion into _memo.
synthesize(args, interfaces_) ==
  /\ Len(types) < MaxTypes
  /\ types' = Append(types,
                ImplementsMeta_call(
                  types,
                  <<"Implements">> \o sorted_by_name(Range(interfaces_)),
                  <<0>>,
                  [__doc__ |-> DocAttr],
                  interfaces_).newtype)
  /\ memo' = memo_setitem(memo, interfaces_, Len(types) + 1)
  /\ owners' = owners \cup {Len(types) + 1}
  /\ ret' = implements_result(args, FALSE, TypeError("none"), Len(types) + 1)
  /\ UNCHANGED ifaces

\* The cache hit: return _memo[interfaces].
cached(args, hit) ==
  /\ ret' = implements_result(args, FALSE, TypeError("none"),
                              (CHOOSE e \in hit : TRUE).value)
  /\ owners' = owners \cup {ret'.value}
  /\ UNCHANGED <<ifaces, types, memo>>

implements_raise(args, what) ==
  /\ ret' = implements_result(args, TRUE, TypeError(what), 0)
  /\ UNCHANGED <<ifaces, types, memo, owners>>

\* The orders in which a frozenset of S may iterate.
Orders(S) ==
  {o \in [1..Cardinality(S) -> S] : Injective(o) /\ Range(o) = S}

implements(args) ==
  IF args = <<>>
    THEN implements_raise(args, "requires at least one interface")
  ELSE IF memo_lookup(memo, args) # {}
    THEN cached(args, memo_lookup(memo, args))
  ELSE IF \E I \in Range(args) : ~is_Interface_subclass(I)
    THEN implements_raise(args, "expected an Interface")
  ELSE \E interfaces_ \in Orders(Range(args)) : synthesize(args, interfaces_)

Implements ==
  \E args \in SeqsUpTo(DOMAIN ifaces \cup {NotAnInterface}, MaxArgs) :
    implements(args)

(***************************************************************************)
(* class <name>(bases...): <clsdict>, the bases being classes built by     *)
(* ImplementsMeta that the caller holds or reaches.                        *)
(***************************************************************************)
class_result(bases, clsdict, value, r) ==
  [op |-> "class", bases |-> bases, clsdict |-> clsdict,
   raised |-> r.raised, exc |-> r.exc,
   newtype |-> r.newtype, checked |-> r.checked, verified |-> r.verified,
   value |-> IF r.raised THEN 0 ELSE value]

DefineClass(bases, clsdict) ==
  /\ Len(types) < MaxTypes
  /\ Range(bases) \subseteq reachable_from(types, owners) \ {0}
  /\ \A b \in Range(bases) : is_a_ImplementsMeta(types, b)
  /\ ret' = class_result(bases, clsdict, Len(types) + 1,
                         ImplementsMeta_call(types, ClassName(Len(types) + 1),
                                             bases, clsdict, <<>>))
  /\ types' = IF ret'.raised THEN types ELSE Append(types, ret'.newtype)
  /\ owners' = IF ret'.raised THEN owners ELSE owners \cup {ret'.value}
  /\ UNCHANGED <<ifaces, memo>>

ClassBasesChoices ==
  {b \in SeqsUpTo(1..Len(types), MaxClassBases) : Len(b) > 0 /\ Injective(b)}

(***************************************************************************)
(* A caller drops its reference to a class (del, end of scope); the weak   *)
(* dictionary then forgets the entries whose key died with it.             *)
(***************************************************************************)
DropRef(t) ==
  /\ t \in owners
  /\ owners' = owners \ {t}
  /\ memo' = live_entries(types, memo, owners \ {t})
  /\ ret' = [op |-> "del", value |-> t, raised |-> FALSE]
  /\ UNCHANGED <<ifaces, types>>

(***************************************************************************)
(* Specification of class construction.                                    *)
(***************************************************************************)
Declare == \E name \in NextIfaceName : \E d \in IfaceBodies(name) : DeclareInterface(name, d)

Define == \E bases \in ClassBasesChoices : \E d \in ClassBodies : DefineClass(bases, d)

Next == Declare \/ Implements \/ Define

Spec == Init /\ [][Next]_vars

(***************************************************************************)
(* Specification of verify: one interface, plain candidate classes (the    *)
(* second derived from the first), and direct calls of I.verify(T).        *)
(***************************************************************************)
MaxPlain == 2

\* class <name>(<parent>): <clsdict>, an ordinary class.
DefinePlainClass(bases, clsdict) ==
  /\ Len(types) < MaxPlain
  /\ types' = Append(types,
                [name |-> ClassName(Len(types) + 1), bases |-> bases,
                 dict |-> clsdict,
                 mro |-> compute_mro(types, Len(types) + 1, bases),
                 meta |-> "type", has_interfaces |-> FALSE,
                 _interfaces |-> <<>>])
  /\ owners' = owners \cup {Len(types) + 1}
  /\ ret' = [op |-> "plain class", raised |-> FALSE]
  /\ UNCHANGED <<ifaces, memo>>

\* I.verify(T), called directly; diff is what its _diff_signatures returned.
VerifyCall(I, T) ==
  /\ ret' = [op |-> "verify", I |-> I, T |-> T,
             diff |-> _diff_signatures(types, ifaces[I], T),
             res |-> verify(types, ifaces[I], T)]
  /\ UNCHANGED <<ifaces, types, memo, owners>>

DeclareV == \E d \in IfaceBodiesV : DeclareInterface("I1", d)

DefinePlain ==
  \E d \in ClassBodiesV :
    DefinePlainClass(IF types = <<>> THEN <<0>> ELSE <<Len(types)>>, d)

Verify == \E I \in DOMAIN ifaces : \E T \in 1..Len(types) : VerifyCall(I, T)

NextVerify == DeclareV \/ DefinePlain \/ Verify

SpecVerify == Init /\ [][NextVerify]_vars

(***************************************************************************)
(* Specification of the memo: two interfaces are declared, callers ask for *)
(* bases, subclass them, and drop what they hold.                          *)
(***************************************************************************)
InitMemo ==
  /\ ifaces =
       [I \in {"I1", "I2"} |->
          InterfaceMeta_new(I, WithModule(
            [m |-> default(Callable("function", SigA, 1), 1)])).value]
  /\ types = <<>>
  /\ memo = {}
  /\ owners = {}
  /\ ret = [op |-> "none", raised |-> FALSE]

Drop == \E t \in owners : DropRef(t)

NextMemo == Implements \/ Define \/ Drop

SpecMemo == InitMemo /\ [][NextMemo]_vars

(***************************************************************************)
(* Properties of verify and _diff_signatures (under SpecVerify).           *)
(***************************************************************************)
\* T or one of its ancestors holds name in its class dictionary.
Defines(heap, T, name) ==
  \E c \in Range(type_mro(heap, T)) : name \in DOMAIN type_vars(heap, c)

VerifiedIface == ifaces[ret.I]

VerifyMissing ==
  {n \in DOMAIN VerifiedIface._signatures : ~Defines(types, ret.T, n)}

VerifyClean ==
  /\ DOMAIN ret.diff.mistyped = {}
  /\ DOMAIN ret.diff.mismatched = {}
  /\ VerifyMissing \subseteq DOMAIN VerifiedIface._defaults

C9_PairwiseDisjoint ==
  ret.op = "verify" =>
    /\ ret.diff.missing \cap DOMAIN ret.diff.mistyped = {}
    /\ ret.diff.missing \cap DOMAIN ret.diff.mismatched = {}
    /\ DOMAIN ret.diff.mistyped \cap DOMAIN ret.diff.mismatched = {}

\* C9 amended: missing shares no name with mistyped or mismatched; a name
\* is in mistyped iff the candidate defines it with a type that is no
\* subtype of the declared one, and in mismatched iff the candidate defines
\* it with an incompatible signature, whatever its type.
C9_DiffSections ==
  ret.op = "verify" =>
    /\ ret.diff.missing = VerifyMissing
    /\ ret.diff.missing \cap DOMAIN ret.diff.mistyped = {}
    /\ ret.diff.missing \cap DOMAIN ret.diff.mismatched = {}
    /\ \A n \in DOMAIN VerifiedIface._signatures \ VerifyMissing :
         LET member == static_get_type_attr(types, ret.T, n).value
             declared == VerifiedIface._signatures[n]
         IN /\ n \in DOMAIN ret.diff.mistyped <=> member.type # declared.type
            /\ n \in DOMAIN ret.diff.mismatched <=>
                 ~compatible(member.sig, declared.signature)

\* A member reported both as mistyped and as mismatched.
C9_Witness ==
  /\ ret.op = "verify"
  /\ DOMAIN ret.diff.mistyped \cap DOMAIN ret.diff.mismatched # {}

(***************************************************************************)
(* Properties of class construction (under Spec).  They read the outcome   *)
(* of the last class statement from ret.                                   *)
(***************************************************************************)
ClassChecked == ret.op = "class" /\ ret.checked

\* The heap before the class statement, the class as type.__new__ made it,
\* and the heap verify saw.
HeapBefore == IF ret.raised THEN types ELSE SubSeq(types, 1, Len(types) - 1)

Cand == type_new(ret.newtype.name, ret.bases, ret.clsdict, ret.newtype.mro)

CandHeap == Append(HeapBefore, Cand)

CandId == Len(HeapBefore) + 1

Lacks(n) == ~Defines(CandHeap, CandId, n)

Passes(I) == ~verify(CandHeap, ifaces[I], CandId).raised

Diagnostic(I) == verify(CandHeap, ifaces[I], CandId).exc.msg

NotCreated ==
  /\ ret.raised
  /\ types = HeapBefore
  /\ \A t \in 1..Len(types) : types[t].name # ret.newtype.name

\* The interfaces that resolved a default for n: they verified the
\* candidate, which lacks n, and declare a default for n.
Providers(n) ==
  {I \in Range(ret.verified) :
     Passes(I) /\ Lacks(n) /\ n \in DOMAIN ifaces[I]._defaults}

ConflictNames == {n \in Names : Cardinality(Providers(n)) > 1}

ConflictDiagnostic ==
  [kind |-> "conflicting defaults", C |-> ret.newtype.name,
   conflicts |-> [n \in ConflictNames |-> Providers(n)]]

\* Two interfaces of the candidate that declare different default objects
\* (resp. the same default object) for n, which the candidate lacks.
DifferentDefaults(a, b, n) ==
  /\ a # b /\ Lacks(n)
  /\ n \in DOMAIN ifaces[a]._defaults /\ n \in DOMAIN ifaces[b]._defaults
  /\ ifaces[a]._defaults[n].did # ifaces[b]._defaults[n].did

SameDefault(a, b, n) ==
  /\ a # b /\ Lacks(n)
  /\ n \in DOMAIN ifaces[a]._defaults /\ n \in DOMAIN ifaces[b]._defaults
  /\ ifaces[a]._defaults[n] = ifaces[b]._defaults[n]

NamesConflict(n, a, b) ==
  \E i \in 1..Len(ret.exc.msg) :
    /\ ret.exc.msg[i].kind = "conflicting defaults"
    /\ ret.exc.msg[i].C = ret.newtype.name
    /\ n \in DOMAIN ret.exc.msg[i].conflicts
    /\ ret.exc.msg[i].conflicts[n] = Providers(n)
    /\ {a, b} \subseteq ret.exc.msg[i].conflicts[n]

\* C2 as claimed: whenever two interfaces of the candidate declare different
\* defaults for a member the candidate lacks, the definition fails with
\* InvalidImplementation carrying the conflict diagnostic that names the
\* candidate, the member and both interfaces, and the class is not created.
C2_AlwaysConflictDiagnostic ==
  ClassChecked =>
    \A n \in Names : \A a, b \in Range(ret.verified) :
      DifferentDefaults(a, b, n) =>
        /\ NotCreated
        /\ ret.exc.cls = "InvalidImplementation"
        /\ NamesConflict(n, a, b)

\* C2 amended: the definition always fails with InvalidImplementation and
\* the class is not created; the conflict diagnostic naming the candidate,
\* the member and every interface that resolved a default for it is part of
\* the error when the candidate verifies against both interfaces.
C2_ConflictDiagnostic ==
  ClassChecked =>
    \A n \in Names : \A a, b \in Range(ret.verified) :
      DifferentDefaults(a, b, n) =>
        /\ NotCreated
        /\ ret.exc.cls = "InvalidImplementation"
        /\ Passes(a) /\ Passes(b) => NamesConflict(n, a, b)

\* A class definition rejected for two different defaults of one member.
C2_Witness ==
  /\ ClassChecked
  /\ \E n \in Names : \E a, b \in Range(ret.verified) :
       DifferentDefaults(a, b, n) /\ Passes(a) /\ Passes(b) /\ ret.raised

\* C3 as claimed: when two interfaces of the candidate declare the same
\* default object for a member the candidate lacks (and nothing else is
\* wrong: every interface verifies and no member has two different
\* defaults), the definition succeeds and the member is installed, bound to
\* the implementation of that default.
C3_SameDefaultAccepted ==
  ClassChecked =>
    \A n \in Names : \A a, b \in Range(ret.verified) :
      ( /\ SameDefault(a, b, n)
        /\ \A I \in Range(ret.verified) : Passes(I)
        /\ \A k \in Names : \A c, d \in Range(ret.verified) :
             ~DifferentDefaults(c, d, k) ) =>
        /\ ~ret.raised
        /\ n \in DOMAIN ret.newtype.dict
        /\ ret.newtype.dict[n].id = ifaces[a]._defaults[n].id
        /\ ret.newtype.dict[n].type = ifaces[a]._defaults[n].wraps

FailingInterfaces == SelectSeq(ret.verified, LAMBDA I : ~Passes(I))

FailureDiagnostics ==
  flatten([i \in 1..Len(FailingInterfaces) |-> Diagnostic(FailingInterfaces[i])])

\* C5 as claimed: when some interface fails, the error raised is the
\* concatenation of the failing interfaces' diagnostics in discovery order
\* (the diagnostic itself when exactly one interface fails).
C5_OnlyFailureDiagnostics ==
  (ClassChecked /\ FailingInterfaces # <<>>) =>
    /\ ret.raised
    /\ ret.exc.cls = "InvalidImplementation"
    /\ ret.exc.msg = FailureDiagnostics

\* C5 amended: every interface of the candidate is verified and the error
\* is the concatenation of the failing interfaces' diagnostics in discovery
\* order, followed by the conflict diagnostic when two or more of the
\* interfaces that did verify resolved a default for the same member.
C5_AllFailuresReported ==
  (ClassChecked /\ FailingInterfaces # <<>>) =>
    /\ ret.raised
    /\ ret.exc.cls = "InvalidImplementation"
    /\ ret.exc.msg = FailureDiagnostics \o
                       (IF ConflictNames # {} THEN <<ConflictDiagnostic>> ELSE <<>>)

\* A class definition that fails two of its interfaces.
C5_Witness ==
  /\ ClassChecked
  /\ Len(FailingInterfaces) >= 2
  /\ ret.raised

\* The classes t derives from, through any number of bases.
RECURSIVE Ancestors(_, _)
Ancestors(heap, t) ==
  IF t = 0 THEN {}
  ELSE Range(heap[t].bases) \cup
       UNION {Ancestors(heap, b) : b \in Range(heap[t].bases)}

\* The interfaces carried by the enforcement bases in t's ancestry.
CarriedInterfaces(heap, t) ==
  UNION {Range(heap[a]._interfaces) : a \in Ancestors(heap, t) \ {0}}

\* C6: a class defined under enforcement bases, at any depth and through
\* any number of them, is verified against every interface carried by the
\* enforcement bases in its ancestry, each once, in first-discovered order;
\* only the synthesis of a base by implements() goes unverified.
C6_VerifiedAgainstAncestry ==
  /\ (ret.op = "class" /\ ret.exc.msg[1].kind # "Cannot create a consistent MRO") =>
       /\ ret.checked
       /\ Injective(ret.verified)
       /\ Range(ret.verified) = CarriedInterfaces(CandHeap, CandId)
       /\ ret.verified = unique(_interfaces_with_duplicates(CandHeap, CandId))
  /\ \A t \in 1..Len(types) :
       types[t]._interfaces # <<>> <=> types[t].bases = <<0>>

\* A class two levels below an enforcement base, verified against it.
C6_Witness ==
  /\ ClassChecked
  /\ \E b \in Range(ret.bases) : types[b]._interfaces = <<>>
  /\ ret.verified # <<>>

ResolvedNames == {n \in Names : Providers(n) # {}}

\* C10 as claimed: defaults are set on the candidate exactly when its
\* definition succeeds; when it raises, none has been set.
C10_InstalledOnlyOnSuccess ==
  ClassChecked =>
    /\ ret.raised => ret.newtype.dict = ret.clsdict
    /\ ~ret.raised =>
         \A n \in ResolvedNames : n \in DOMAIN ret.newtype.dict

\* C10 amended: defaults are set on the candidate exactly when no member
\* has defaults resolved by two or more interfaces, also when some
\* interface failed and the definition raises; on a conflict none is set.
C10_InstalledUnlessConflict ==
  ClassChecked =>
    /\ ConflictNames # {} => ret.newtype.dict = ret.clsdict
    /\ ConflictNames = {} =>
         /\ DOMAIN ret.newtype.dict = DOMAIN ret.clsdict \cup ResolvedNames
         /\ \A n \in DOMAIN ret.clsdict \ ResolvedNames :
              ret.newtype.dict[n] = ret.clsdict[n]
         /\ \A n \in ResolvedNames : \A I \in Providers(n) :
              /\ ret.newtype.dict[n].id = ifaces[I]._defaults[n].id
              /\ ret.newtype.dict[n].type = ifaces[I]._defaults[n].wraps

\* A definition that raised after defaults were set on the class.
C10_Witness ==
  /\ ClassChecked
  /\ ret.raised
  /\ ret.newtype.dict # ret.clsdict

(***************************************************************************)
(* Properties of implements() and its memo.                                *)
(***************************************************************************)
BadArgs(args) == args = <<>> \/ \E I \in Range(args) : I \notin DOMAIN ifaces

C7_KeysAreInterfaceSets ==
  /\ \A e \in memo : Range(e.key) # {} /\ Range(e.key) \subseteq DOMAIN ifaces
  /\ (ret.op = "implements" /\ BadArgs(ret.args)) =>
       /\ ret.raised
       /\ ret.exc.cls = "TypeError"
       /\ ret.value = 0

C7_RejectionChangesNothing ==
  (ret'.op = "implements" /\ BadArgs(ret'.args)) =>
    /\ memo' = memo
    /\ types' = types

\* C7: implements() without arguments and implements(...) with an argument
\* that is no Interface subclass raise TypeError, synthesize nothing and
\* leave the memo unchanged, so every key of the memo is a non-empty set of
\* Interface subclasses.
C7_UsageErrors == []C7_KeysAreInterfaceSets /\ [][C7_RejectionChangesNothing]_vars

\* implements() was called with an argument that is no interface while the
\* memo held an entry.
C7_Witness ==
  /\ ret.op = "implements"
  /\ ret.args # <<>>
  /\ BadArgs(ret.args)
  /\ memo # {}

EnforcementBases == {t \in 1..Len(types) : types[t]._interfaces # <<>>}

C4_OneBasePerSet ==
  /\ \A e1, e2 \in memo : Range(e1.key) = Range(e2.key) => e1 = e2
  /\ \A i, j \in EnforcementBases :
       Range(types[i]._interfaces) = Range(types[j]._interfaces) => i = j
  /\ (ret.op = "implements" /\ ~ret.raised) =>
       /\ ret.value \in EnforcementBases
       /\ Range(types[ret.value]._interfaces) = Range(ret.args)
       /\ [key |-> types[ret.value]._interfaces, value |-> ret.value] \in memo

C4_EntriesKept == \A e \in memo : e \in memo'

\* C4: calls of implements() whose arguments form the same set of
\* interfaces return the identical base, calls with different sets return
\* different bases; the memo never holds two entries for equal sets and an
\* entry is never replaced.
C4_Memoized == []C4_OneBasePerSet /\ [][C4_EntriesKept]_vars

\* implements() answered from the memo for two arguments given in another
\* order than the one the key of the entry iterates in.
C4_Witness ==
  /\ ret.op = "implements"
  /\ ~ret.raised
  /\ ret.value < Len(types)
  /\ Len(ret.args) = 2
  /\ ret.args # types[ret.value]._interfaces

\* C8 as claimed: the memo does not keep an interface set alive, so every
\* entry it holds is for a base that some caller still reaches (holds it or
\* a subclass of it); the entry is discarded when the last of them is gone.
C8_EntriesDieWithOwners ==
  \A e \in memo : e.value \in reachable_from(types, owners)

====
